---- MODULE Spec2Model ----
(***************************************************************************)
(* The database migration engine of src/src/migrations: the               *)
(* MigrationManager (migrationManager.ts) over the Migration record       *)
(* collection (migration.model.ts), and the MigrationService                *)
(* (migrationService.ts) that wraps it.                                    *)
(*                                                                         *)
(* The record store is a MongoDB collection with a unique index on name,  *)
(* on a deployment that supports multi-document transactions.  A write    *)
(* made with { session } is staged in txn and reaches store only at       *)
(* commitTransaction; abortTransaction discards it.  A write made without *)
(* a session reaches store at once.                                       *)
(*                                                                         *)
(* version strings are modelled by their rank under localeCompare, and    *)
(* Date values by a logical clock.                                        *)
(***************************************************************************)
EXTENDS Integers, Sequences, FiniteSets, TLC

\* The migration files of the directory, in the order of files.sort().
FileOrder == <<"m1", "m2", "m3">>

Names == {FileOrder[i] : i \in 1..Len(FileOrder)}

\* Versions are 1..MaxVersion: ties and orders other than the file order occur.
MaxVersion == 2

\* Date.now() ranges over 0..MaxClock; it never runs backwards.
MaxClock == 1

\* The directory holds up to MaxFiles files where its content is arbitrary.
MaxFiles == 2

\* initRuns counts up to MaxInitRuns and stays there.
MaxInitRuns == 2

\* checksumLog holds up to MaxChecksumLog record creations.
MaxChecksumLog == 2

Statuses == {"PENDING", "SUCCESS", "FAILED"}

NoError == "null"

Undefined == 0 - 1

\* No document of that name in the collection.
NoRec == [status |-> "NONE", appliedAt |-> 0, errorMessage |-> NoError]

Rec(s, t, e) == [status |-> s, appliedAt |-> t, errorMessage |-> e]

NoTxn == [open |-> FALSE, dirty |-> FALSE, rec |-> NoRec]

NoResult == [success |-> FALSE, error |-> "unset"]

\* runPendingMigrations() has not returned a value.
NoRun == [success |-> FALSE, migrationsRun |-> Undefined]

\* getStatusSummary() has not returned a value.
NoSummary == [total |-> Undefined, applied |-> Undefined,
              pending |-> Undefined, failed |-> Undefined]

\* runOnStartup() has not read process.env.
NoEnv == [AUTO_MIGRATE |-> "unread", NODE_ENV |-> "unread"]

VARIABLES
  version,     \* IMigration.version of each definition file
  migrations,  \* MigrationManager.migrations: the Map's keys in insertion order
  store,       \* the committed documents of the Migration collection, by name
  clock,       \* the value Date.now() last returned
  call,        \* the public method in progress
  pc,          \* its position
  pending,     \* migrate(): the pendingMigrations still to be iterated
  cur,         \* the migration of the running runSingleMigration()/rollback()
  txn,         \* the open session's transaction and the write staged in it
  err,         \* the error caught by runSingleMigration()
  results,     \* migrate(): results
  rbResult,    \* the MigrationResult of the last rollback()
  qret,        \* the value returned by getStatus()/getPendingMigrations()
  resetQueue,  \* reset(): the appliedMigrations still to be iterated
  upLog,       \* history: the up() invocations of this call, in order
  downLog,     \* history: the down() invocations of this call, in order
  downOut,     \* history: how the last down() race settled
  visitLog,    \* history: what reset() did for each record it visited
  store0,      \* history: store when this call began
  upOk,        \* history: names whose last up() resolved before its timer and
               \* whose record was not deleted since
  upOut,       \* history: how the last up() race settled
  late,        \* the bodies of this call that lost their race to the timer and
               \* have not settled yet
  thrown,      \* the manager's method in progress ended by throwing
  migrationsDir,  \* the migrations directory: whether it exists and its .js/.ts
               \* files in the order of files.sort()
  ready,       \* history: an initialize() of this manager has returned
  initRuns,    \* history: the runs of MigrationManager.initialize() started
  isInitialized,  \* MigrationService.isInitialized
  overlap,     \* a second caller's service.initialize() is awaiting the
               \* manager's initialize()
  svc,         \* the MigrationService method in progress
  svcPc,       \* its position
  svcErr,      \* the error that reached the service method
  svcThrown,   \* the service method ended by throwing
  runRet,      \* the value returned by runPendingMigrations()
  summary,     \* the value returned by getStatusSummary()
  env,         \* process.env as runOnStartup() read it
  healthCalls,  \* history: the checkMigrationHealth() calls of this service
                \* call
  openSessions,  \* the sessions that startSession() returned and endSession()
                 \* has not released
  checksumLog  \* the definitions whose record was created, each with the
               \* checksum put on the record

vars == <<version, migrations, store, clock, call, pc, pending, cur, txn, err,
          results, rbResult, qret, resetQueue, upLog, downLog, downOut,
          visitLog, store0, upOk, upOut, late, thrown, migrationsDir, ready,
          initRuns, isInitialized, overlap, svc, svcPc, svcErr, svcThrown,
          runRet, summary, env, healthCalls, openSessions, checksumLog>>

locals == <<pending, cur, txn, err, results, rbResult, qret, resetQueue>>

history == <<upLog, downLog, downOut, visitLog, store0>>

\* The state of the MigrationService call in progress.
svcLocals == <<svc, svcPc, svcErr, svcThrown, runRet, summary, env,
               healthCalls>>

\* What the manager's run-time methods leave alone: the directory, the
\* initialization, and the service above the manager.
service == <<migrationsDir, ready, initRuns, isInitialized, overlap, svcLocals>>

----------------------------------------------------------------------------
\* Helpers

Last(s) == s[Len(s)]

Front(s) == SubSeq(s, 1, Len(s) - 1)

Range(s) == {s[i] : i \in 1..Len(s)}

NoDup(s) == \A i, j \in 1..Len(s) : s[i] = s[j] => i = j

\* this.migrations.has(name) / this.migrations.get(name)
Loaded(n) == n \in Range(migrations)

HasRecord(S, n) == S[n].status # "NONE"

\* The subsequences of FileOrder: what loadMigrations() can leave in the Map.
RECURSIVE Restrict(_, _)
Restrict(s, keep) ==
  IF s = <<>> THEN <<>>
  ELSE IF Head(s) \in keep THEN <<Head(s)>> \o Restrict(Tail(s), keep)
       ELSE Restrict(Tail(s), keep)

\* The orders in which a find().sort({appliedAt: dir}) can return the records
\* named ns: appliedAt ascending (dir = 1) or descending (dir = -1), records
\* of equal appliedAt in any order.
FindSortedDirected(S, ns, dir) ==
  {q \in [1..Cardinality(ns) -> ns] :
     /\ \A i, j \in 1..Cardinality(ns) : q[i] = q[j] => i = j
     /\ \A i, j \in 1..Cardinality(ns) :
          i < j => dir * S[q[i]].appliedAt <= dir * S[q[j]].appliedAt}

\* The mutated sort: the direction of the sort is dropped.
FindSortedAscendingOnly(S, ns, dir) ==
  {q \in [1..Cardinality(ns) -> ns] :
     /\ \A i, j \in 1..Cardinality(ns) : q[i] = q[j] => i = j
     /\ \A i, j \in 1..Cardinality(ns) :
          i < j => S[q[i]].appliedAt <= S[q[j]].appliedAt}

FindSortedByAppliedAt(S, ns, dir) == FindSortedDirected(S, ns, dir)

\* Array.prototype.sort((a, b) => a.version.localeCompare(b.version)): a stable
\* sort, computed here by insertion.
RECURSIVE InsertByVersion(_, _)
InsertByVersion(s, x) ==
  IF s = <<>> THEN <<x>>
  ELSE IF Head(s).version <= x.version
       THEN <<Head(s)>> \o InsertByVersion(Tail(s), x)
       ELSE <<x>> \o s

RECURSIVE StableSortByVersion(_)
StableSortByVersion(s) ==
  IF s = <<>> THEN <<>>
  ELSE InsertByVersion(StableSortByVersion(Front(s)), Last(s))

SortByVersion(s) == StableSortByVersion(s)

----------------------------------------------------------------------------
\* The queries

\* getPendingMigrations(), mutated: Migration.find() without the status filter.
getPendingMigrationsAnyRecord ==
  LET IsPending(n) == ~HasRecord(store, n)
      names == SelectSeq(migrations, IsPending)
  IN SortByVersion([i \in 1..Len(names) |->
                      [name |-> names[i], version |-> version[names[i]]]])

\* getPendingMigrations(), mutated: the records are not looked at.
getPendingMigrationsIgnoringRecords ==
  SortByVersion([i \in 1..Len(migrations) |->
                   [name |-> migrations[i], version |-> version[migrations[i]]]])

\* getPendingMigrations(): the definitions of the Map, in insertion order,
\* whose name is not that of a record found by find({status: "SUCCESS"}),
\* then sorted by version.
getPendingMigrations ==
  LET appliedMigrationNames == {n \in Names : store[n].status = "SUCCESS"}
      IsPending(n) == n \notin appliedMigrationNames
      names == SelectSeq(migrations, IsPending)
  IN SortByVersion([i \in 1..Len(names) |->
                      [name |-> names[i], version |-> version[names[i]]]])

\* One MigrationStatus of getStatus().
StatusEntry(n, applied) ==
  [name |-> n,
   version |-> version[n],
   applied |-> applied,
   appliedAt |-> IF HasRecord(store, n) THEN store[n].appliedAt ELSE Undefined,
   status |-> IF HasRecord(store, n) THEN store[n].status ELSE "PENDING",
   errorMessage |-> store[n].errorMessage]

\* getStatus(), mutated: the loop over the records without a file is left out.
getStatusNoOrphans(appliedMigrations) ==
  SortByVersion([i \in 1..Len(migrations) |->
                   StatusEntry(migrations[i], HasRecord(store, migrations[i]))])

\* getStatus(): appliedMigrations is the result of find().sort({appliedAt: 1}).
\* One entry per definition of the Map, then one per record without a
\* definition, then the sort by version.
getStatus(appliedMigrations) ==
  LET fromFiles == [i \in 1..Len(migrations) |->
                      StatusEntry(migrations[i],
                                  migrations[i] \in Range(appliedMigrations))]
      IsOrphan(n) == ~Loaded(n)
      orphans == SelectSeq(appliedMigrations, IsOrphan)
      fromRecords == [i \in 1..Len(orphans) |-> StatusEntry(orphans[i], TRUE)]
  IN SortByVersion(fromFiles \o fromRecords)

----------------------------------------------------------------------------
\* The migrations directory and initialize()

\* What a file's module exports: a definition of that name, complete ("ok")
\* or lacking one of the five members validateMigration() asks for.
Shapes == {"ok", "noName", "noVersion", "noDescription", "noUp", "noDown"}

File(n, shape) == [name |-> n, shape |-> shape]

Files ==
  {File(n, sh) : n \in Names, sh \in Shapes \ {"noName"}}
    \cup {File("", "noName")}

\* A directory of well-formed files that export the names ns.
DirOfNames(ns) ==
  [exists |-> TRUE, files |-> [i \in 1..Len(ns) |-> File(ns[i], "ok")]]

NoDirectory == [exists |-> FALSE, files |-> <<>>]

\* validateMigration(), mutated: down is not looked at.
validateMigrationWithoutDown(f) ==
  /\ f.shape # "noName"
  /\ f.shape # "noVersion"
  /\ f.shape # "noDescription"
  /\ f.shape # "noUp"

\* validateMigration(): name, version and description are non-empty strings,
\* up and down are functions.
validateMigration(f) ==
  /\ f.shape # "noName"
  /\ f.shape # "noVersion"
  /\ f.shape # "noDescription"
  /\ f.shape # "noUp"
  /\ f.shape # "noDown"

\* this.migrations.set(name, migration): a new key goes last, a key already
\* in the Map keeps its place and takes the new value.
MapSet(map, n) == IF n \in Range(map) THEN map ELSE Append(map, n)

\* The loop of loadMigrations() from the i-th file on: the first file that
\* does not validate makes loadMigrationFile() throw, and the error is thrown
\* on; what was set before stays in the Map.  A generated file's name begins
\* with its version, so the i-th file carries the i-th version.
RECURSIVE loadFiles(_, _, _, _)
loadFiles(map, ver, files, i) ==
  IF i > Len(files)
  THEN [ok |-> TRUE, migrations |-> map, version |-> ver]
  ELSE IF ~validateMigration(files[i])
  THEN [ok |-> FALSE, migrations |-> map, version |-> ver]
  ELSE loadFiles(MapSet(map, files[i].name),
                 [ver EXCEPT ![files[i].name] = i], files, i + 1)

\* loadMigrations(): a directory that fs.access() does not find is warned
\* about and yields nothing.
loadMigrations(map, ver, d) ==
  IF d.exists
  THEN loadFiles(map, ver, d.files, 1)
  ELSE [ok |-> TRUE, migrations |-> map, version |-> ver]

\* A run counted, up to MaxInitRuns.
Counted(n) == IF n < MaxInitRuns THEN n + 1 ELSE n

----------------------------------------------------------------------------
\* The initial states

\* A fresh deployment: the collection is empty, the manager is initialized
\* with some of the migration files, no call is in progress.
Quiet ==
  /\ call = "none"
  /\ pc = "idle"
  /\ pending = <<>>
  /\ cur = "none"
  /\ txn = NoTxn
  /\ err = NoError
  /\ results = <<>>
  /\ rbResult = NoResult
  /\ qret = <<>>
  /\ resetQueue = <<>>
  /\ upLog = <<>>
  /\ downLog = <<>>
  /\ downOut = "none"
  /\ visitLog = <<>>
  /\ upOut = "none"
  /\ late = {}
  /\ thrown = FALSE
  /\ openSessions = 0
  /\ checksumLog = <<>>

\* No MigrationService call is in progress.
QuietService ==
  /\ overlap = FALSE
  /\ svc = "none"
  /\ svcPc = "idle"
  /\ svcErr = NoError
  /\ svcThrown = FALSE
  /\ runRet = NoRun
  /\ summary = NoSummary
  /\ env = NoEnv
  /\ healthCalls = 0

\* The process has initialized its manager, once, from a directory of
\* well-formed files that export the names ns.
InitializedFrom(ns) ==
  /\ migrationsDir = DirOfNames(ns)
  /\ ready = TRUE
  /\ initRuns = 1
  /\ isInitialized = TRUE
  /\ QuietService

Init ==
  /\ version \in [Names -> 1..MaxVersion]
  /\ \E keep \in SUBSET Names : migrations = Restrict(FileOrder, keep)
  /\ store = [n \in Names |-> NoRec]
  /\ store0 = store
  /\ clock = 0
  /\ upOk = {}
  /\ Quiet
  /\ InitializedFrom(migrations)

----------------------------------------------------------------------------
\* migrate() and runSingleMigration()

\* Promise.race([body, timeoutPromise]) inside a try block, mutated: the timer
\* resolves instead of rejecting.
AfterRaceTimerResolves(outcome) ==
  IF outcome \in {"resolved", "timeout"} THEN "continue" ELSE "catch"

\* Promise.race([body, timeoutPromise]) inside a try block: the statements
\* after the await run when the body resolved first; a rejection of the body
\* or of the timer goes to the catch block.
AfterRace(outcome) == IF outcome = "resolved" THEN "continue" ELSE "catch"

\* The error the race rejects with, mutated: the timer's message is lost.
RaceErrorOfBodyOnly(outcome, timeoutMessage) == "boom"

\* The error the race rejects with.
RaceError(outcome, timeoutMessage) ==
  IF outcome = "timeout" THEN timeoutMessage ELSE "boom"

\* A body that lost its race keeps running: nothing cancels it.
Body(n, op) == [name |-> n, op |-> op]

StillRunning(running, outcome, body) ==
  IF outcome = "timeout" THEN running \cup {body} ELSE running

\* The finally blocks, mutated: endSession() is reached on the try path only.
AfterFinallyOnTryOnly(n, path) == IF path = "try" THEN n - 1 ELSE n

\* "finally { if (session) await session.endSession() }" of
\* runSingleMigration() and of rollback(): it runs after the try path and
\* after the catch path, and releases the session that was opened.
AfterFinally(n, path) == n - 1

\* The catch blocks, mutated: each of them rethrows.
CatchRethrowsAlways(where) == TRUE

\* Whether a catch block ends in "throw error": the inner catch of
\* rollback()'s transaction does, the catch of runSingleMigration() returns
\* a MigrationResult.
CatchRethrows(where) == where = "rollback transaction"

\* migrate()'s loop, mutated: no break on a failed result.
LoopContinuesNoBreak(success, rest) == rest # <<>>

\* migrate()'s loop: break after a failed result, else go on while
\* pendingMigrations has a next element.
LoopContinues(success, rest) == success /\ rest # <<>>

\* session.commitTransaction(): the write staged for n reaches the collection.
Commit(S, n, t) == IF t.dirty THEN [S EXCEPT ![n] = t.rec] ELSE S

\* Migration.updateOne({name}, {status: "FAILED", errorMessage, ...}) without
\* a session and without upsert: it changes the committed record of that name
\* and does nothing when there is none.
updateOneFailed(S, n, e) ==
  IF HasRecord(S, n)
  THEN [S EXCEPT ![n].status = "FAILED", ![n].errorMessage = e]
  ELSE S

\* migrate() up to its loop: the pending list is computed once.
MigrateEnter ==
  /\ call' = "migrate"
  /\ store0' = store
  /\ pending' = getPendingMigrations
  /\ pc' = IF Len(pending') = 0 THEN "returned" ELSE "mig_loop"
  /\ UNCHANGED <<version, migrations, store, clock, cur, txn, err, results,
                 rbResult, qret, resetQueue, upLog, downLog, downOut, visitLog,
                 upOk, upOut, late, thrown>>
  /\ UNCHANGED <<openSessions, checksumLog>>

\* migrate() called on the manager.
MigrateCall ==
  /\ pc = "idle"
  /\ svc = "none"
  /\ MigrateEnter
  /\ UNCHANGED service

\* One iteration enters runSingleMigration(): startSession, startTransaction,
\* new Migration({... status: "PENDING"}) with appliedAt = Date.now(),
\* save({session}), and, when the insert was accepted, the call of up().
\* The unique index on name rejects the insert when a record of that name is
\* committed.
RsmBegin ==
  /\ pc = "mig_loop"
  /\ \E now \in {t \in {clock, clock + 1} : t <= MaxClock} :
       LET m == Head(pending).name IN
       /\ clock' = now
       /\ cur' = m
       /\ pending' = Tail(pending)
       /\ IF HasRecord(store, m)
          THEN /\ txn' = [open |-> TRUE, dirty |-> FALSE, rec |-> NoRec]
               /\ err' = "E11000 duplicate key"
               /\ pc' = "rsm_catch"
               /\ UNCHANGED <<upLog, upOk>>
          ELSE /\ txn' = [open |-> TRUE, dirty |-> TRUE,
                          rec |-> Rec("PENDING", now, NoError)]
               /\ upLog' = Append(upLog, m)
               /\ upOk' = upOk \ {m}
               /\ pc' = "rsm_race"
               /\ UNCHANGED err
  /\ UNCHANGED <<version, migrations, store, call, results, rbResult, qret,
                 resetQueue, downLog, downOut, visitLog, store0>>
  /\ upOut' = "none"
  /\ UNCHANGED <<late, thrown, service>>
  /\ openSessions' = openSessions + 1
  /\ UNCHANGED checksumLog

\* The try path after the race, mutated: the status is left as inserted.
MarkSuccessForgotten(t) == t

\* The try path after the race: migrationRecord.status = "SUCCESS" and
\* save({session}), staged in the transaction.
MarkSuccess(t) == [t EXCEPT !.rec.status = "SUCCESS"]

\* The race of up() against the timer settles.  On the try path the record is
\* set to SUCCESS and saved with the session.
UpSettles(outcome) ==
  /\ pc = "rsm_race"
  /\ upOut' = outcome
  /\ late' = StillRunning(late, outcome, Body(cur, "up"))
  /\ upOk' = IF outcome = "resolved" THEN upOk \cup {cur} ELSE upOk
  /\ IF AfterRace(outcome) = "continue"
     THEN /\ txn' = MarkSuccess(txn)
          /\ pc' = "rsm_commit"
          /\ UNCHANGED err
     ELSE /\ err' = RaceError(outcome, "Migration timeout")
          /\ pc' = "rsm_catch"
          /\ UNCHANGED txn
  /\ UNCHANGED <<version, migrations, store, clock, call, pending, cur,
                 results, rbResult, qret, resetQueue, upLog, downLog, downOut,
                 visitLog, store0, thrown, service>>
  /\ UNCHANGED <<openSessions, checksumLog>>

UpResolves ==
  /\ pc = "rsm_race"
  /\ UpSettles("resolved")

UpRejects ==
  /\ pc = "rsm_race"
  /\ UpSettles("rejected")

UpTimesOut ==
  /\ pc = "rsm_race"
  /\ UpSettles("timeout")

\* commitTransaction, the success result, endSession, and back in migrate():
\* results.push(result) and the loop's next test.
RsmCommit ==
  /\ pc = "rsm_commit"
  /\ store' = Commit(store, cur, txn)
  /\ txn' = NoTxn
  /\ results' = Append(results, [success |-> TRUE, error |-> NoError])
  /\ pc' = IF LoopContinues(TRUE, pending) THEN "mig_loop" ELSE "returned"
  /\ UNCHANGED <<version, migrations, clock, call, pending, cur, err,
                 rbResult, qret, resetQueue, upLog, downLog, downOut, visitLog,
                 store0, upOk>>
  /\ UNCHANGED <<upOut, late, thrown, service>>
  /\ openSessions' = AfterFinally(openSessions, "try")
  /\ UNCHANGED checksumLog

\* The catch block: abortTransaction when in a transaction, the updateOne to
\* FAILED, the failure result, endSession, and back in migrate().
RsmCatch ==
  /\ pc = "rsm_catch"
  /\ txn' = NoTxn
  /\ store' = updateOneFailed(store, cur, err)
  /\ IF CatchRethrows("runSingleMigration")
     THEN /\ thrown' = TRUE
          /\ pc' = "returned"
          /\ UNCHANGED results
     ELSE /\ results' = Append(results, [success |-> FALSE, error |-> err])
          /\ pc' = IF LoopContinues(FALSE, pending)
                   THEN "mig_loop" ELSE "returned"
          /\ UNCHANGED thrown
  /\ UNCHANGED <<version, migrations, clock, call, pending, cur, err,
                 rbResult, qret, resetQueue, upLog, downLog, downOut, visitLog,
                 store0, upOk, upOut, late, service>>
  /\ openSessions' = AfterFinally(openSessions, "catch")
  /\ UNCHANGED checksumLog

----------------------------------------------------------------------------
\* rollback()

\* Where the running rollback() returns to: reset()'s loop or the caller.
RollbackReturnsTo(c) == IF c = "reset" THEN "reset_loop" ELSE "returned"

\* rollback()'s precondition, mutated: any record of that name is accepted.
CanRollbackAnyStatus(S, n) == Loaded(n) /\ HasRecord(S, n)

\* rollback()'s precondition: the definition is in the Map and findOne({name})
\* returns a record whose status is SUCCESS; else it throws into its own outer
\* catch.
CanRollback(S, n) == Loaded(n) /\ S[n].status = "SUCCESS"

\* The message of the error thrown by a failed precondition.
RollbackRefusal(n) ==
  IF ~Loaded(n) THEN "Migration not found"
  ELSE "Migration is not applied or failed"

\* The try path of rollback(), mutated: the deleteOne is left out.
StageNothing(t) == t

\* Migration.deleteOne({name}, {session}): the delete is staged in the
\* transaction.
StageDelete(t) == [t EXCEPT !.dirty = TRUE, !.rec = NoRec]

\* rollback()'s catch blocks, mutated: the record is deleted on failure too.
AfterDownFailureDeletes(S, n) == [S EXCEPT ![n] = NoRec]

\* rollback()'s catch blocks: abortTransaction, rethrow, failure result.  No
\* write was staged and none is made.
AfterDownFailure(S, n) == S

\* rollback(n) entered by the public call (c = "rollback") or by reset()
\* (c = "reset"): the precondition checks, then startSession,
\* startTransaction and the call of down().
RollbackEnter(n, c) ==
  /\ cur' = n
  /\ IF CanRollback(store, n)
     THEN /\ txn' = [open |-> TRUE, dirty |-> FALSE, rec |-> NoRec]
          /\ openSessions' = openSessions + 1
          /\ downLog' = Append(downLog, n)
          /\ pc' = "rb_race"
          /\ UNCHANGED rbResult
     ELSE /\ rbResult' = [success |-> FALSE, error |-> RollbackRefusal(n)]
          /\ pc' = RollbackReturnsTo(c)
          /\ UNCHANGED <<txn, downLog, openSessions>>
  /\ downOut' = "none"

RollbackCall ==
  /\ pc = "idle"
  /\ svc = "none"
  /\ call' = "rollback"
  /\ store0' = store
  /\ \E n \in Names : RollbackEnter(n, "rollback")
  /\ UNCHANGED <<version, migrations, store, clock, pending, err, results,
                 qret, resetQueue, upLog, visitLog, upOk>>
  /\ UNCHANGED <<upOut, late, thrown, service>>
  /\ UNCHANGED checksumLog

\* The race of down() against the timer settles.  On the try path
\* deleteOne({name}, {session}) stages the delete.
DownSettles(outcome) ==
  /\ pc = "rb_race"
  /\ downOut' = outcome
  /\ late' = StillRunning(late, outcome, Body(cur, "down"))
  /\ IF AfterRace(outcome) = "continue"
     THEN /\ txn' = StageDelete(txn)
          /\ pc' = "rb_commit"
          /\ UNCHANGED <<store, rbResult, openSessions>>
     ELSE /\ txn' = NoTxn
          /\ openSessions' = AfterFinally(openSessions, "catch")
          /\ store' = AfterDownFailure(store, cur)
          /\ rbResult' = [success |-> FALSE,
                          error |-> RaceError(outcome, "Rollback timeout")]
          /\ pc' = RollbackReturnsTo(call)
  /\ UNCHANGED <<version, migrations, clock, call, pending, cur, err, results,
                 qret, resetQueue, upLog, downLog, visitLog, store0, upOk,
                 upOut, thrown, service>>
  /\ UNCHANGED checksumLog

DownResolves ==
  /\ pc = "rb_race"
  /\ DownSettles("resolved")

DownRejects ==
  /\ pc = "rb_race"
  /\ DownSettles("rejected")

DownTimesOut ==
  /\ pc = "rb_race"
  /\ DownSettles("timeout")

\* commitTransaction, the success result, endSession.
RbCommit ==
  /\ pc = "rb_commit"
  /\ store' = Commit(store, cur, txn)
  /\ txn' = NoTxn
  /\ upOk' = upOk \ {cur}
  /\ rbResult' = [success |-> TRUE, error |-> NoError]
  /\ pc' = RollbackReturnsTo(call)
  /\ UNCHANGED <<version, migrations, clock, call, pending, cur, err, results,
                 qret, resetQueue, upLog, downLog, downOut, visitLog, store0>>
  /\ UNCHANGED <<upOut, late, thrown, service>>
  /\ openSessions' = AfterFinally(openSessions, "try")
  /\ UNCHANGED checksumLog

----------------------------------------------------------------------------
\* reset()

\* reset() up to its loop: find({status: "SUCCESS"}).sort({appliedAt: -1}).
ResetCall ==
  /\ pc = "idle"
  /\ svc = "none"
  /\ call' = "reset"
  /\ store0' = store
  /\ resetQueue' \in
       FindSortedByAppliedAt(store,
                             {n \in Names : store[n].status = "SUCCESS"},
                             0 - 1)
  /\ pc' = "reset_loop"
  /\ UNCHANGED <<version, migrations, store, clock, pending, cur, txn, err,
                 results, rbResult, qret, upLog, downLog, downOut, visitLog,
                 upOk>>
  /\ UNCHANGED <<upOut, late, thrown, service>>
  /\ UNCHANGED <<openSessions, checksumLog>>

\* One iteration: rollback(migration.name) when the definition is in the Map,
\* else deleteOne({name}) without a session.
ResetStep ==
  /\ pc = "reset_loop"
  /\ resetQueue # <<>>
  /\ resetQueue' = Tail(resetQueue)
  /\ LET n == Head(resetQueue) IN
       IF Loaded(n)
       THEN /\ RollbackEnter(n, "reset")
            /\ visitLog' = Append(visitLog, [name |-> n, how |-> "rollback"])
            /\ UNCHANGED <<store, upOk>>
       ELSE /\ store' = [store EXCEPT ![n] = NoRec]
            /\ upOk' = upOk \ {n}
            /\ visitLog' = Append(visitLog, [name |-> n, how |-> "delete"])
            /\ pc' = "reset_loop"
            /\ UNCHANGED <<cur, txn, rbResult, downLog, downOut, openSessions>>
  /\ UNCHANGED <<version, migrations, clock, call, pending, err, results,
                 qret, upLog, store0>>
  /\ UNCHANGED <<upOut, late, thrown, service>>
  /\ UNCHANGED checksumLog

\* The loop is over: reset() returns.
ResetReturn ==
  /\ pc = "reset_loop"
  /\ resetQueue = <<>>
  /\ pc' = "returned"
  /\ UNCHANGED <<version, migrations, store, clock, call, pending, cur, txn,
                 err, results, rbResult, qret, resetQueue, upLog, downLog,
                 downOut, visitLog, store0, upOk>>
  /\ UNCHANGED <<upOut, late, thrown, service>>
  /\ UNCHANGED <<openSessions, checksumLog>>

----------------------------------------------------------------------------
\* The queries as calls, the caller, and a new process

GetStatusCall ==
  /\ pc = "idle"
  /\ svc = "none"
  /\ call' = "getStatus"
  /\ store0' = store
  /\ \E applied \in FindSortedByAppliedAt(store,
                                           {n \in Names : HasRecord(store, n)},
                                           1) :
       qret' = getStatus(applied)
  /\ pc' = "returned"
  /\ UNCHANGED <<version, migrations, store, clock, pending, cur, txn, err,
                 results, rbResult, resetQueue, upLog, downLog, downOut,
                 visitLog, upOk>>
  /\ UNCHANGED <<upOut, late, thrown, service>>
  /\ UNCHANGED <<openSessions, checksumLog>>

GetPendingCall ==
  /\ pc = "idle"
  /\ svc = "none"
  /\ call' = "getPendingMigrations"
  /\ store0' = store
  /\ qret' = getPendingMigrations
  /\ pc' = "returned"
  /\ UNCHANGED <<version, migrations, store, clock, pending, cur, txn, err,
                 results, rbResult, resetQueue, upLog, downLog, downOut,
                 visitLog, upOk>>
  /\ UNCHANGED <<upOut, late, thrown, service>>
  /\ UNCHANGED <<openSessions, checksumLog>>

\* The caller has taken the returned value: the call's locals are gone.
CallerContinues ==
  /\ pc = "returned"
  /\ svc = "none"
  /\ call' = "none"
  /\ pc' = "idle"
  /\ pending' = <<>>
  /\ cur' = "none"
  /\ txn' = NoTxn
  /\ err' = NoError
  /\ results' = <<>>
  /\ rbResult' = NoResult
  /\ qret' = <<>>
  /\ resetQueue' = <<>>
  /\ upLog' = <<>>
  /\ downLog' = <<>>
  /\ downOut' = "none"
  /\ visitLog' = <<>>
  /\ store0' = store
  /\ upOut' = "none"
  /\ late' = {}
  /\ thrown' = FALSE
  /\ UNCHANGED <<version, migrations, store, clock, upOk, service>>
  /\ UNCHANGED <<openSessions, checksumLog>>

\* How a body that lost its race can settle.
LateOutcomes == {"resolved", "rejected"}

\* The settlement of the losing promise, mutated: a late up() that resolves
\* is recorded as applied.
AfterLateSettlementRecorded(S, b, outcome) ==
  IF b.op = "up" /\ outcome = "resolved"
  THEN [S EXCEPT ![b.name] = Rec("SUCCESS", 0, NoError)]
  ELSE S

\* The settlement of the promise that lost Promise.race: the race has
\* settled, the await has thrown, and no handler of the engine is left on the
\* body's promise.  The collection stays as it is.
AfterLateSettlement(S, b, outcome) == S

\* A body that lost its race settles.  The engine reads nothing of it.
LateBodySettles ==
  /\ \E b \in late, outcome \in LateOutcomes :
       /\ late' = late \ {b}
       /\ store' = AfterLateSettlement(store, b, outcome)
  /\ UNCHANGED <<version, migrations, clock, call, pc, locals, history,
                 upOk, upOut, thrown, service>>
  /\ UNCHANGED <<openSessions, checksumLog>>

\* A new process: a new MigrationManager whose initialize() loads the files
\* that are in the directory now, in the order of files.sort().
NewProcess ==
  /\ pc = "idle"
  /\ svc = "none"
  /\ \E keep \in SUBSET Names :
       /\ Restrict(FileOrder, keep) # migrations
       /\ migrations' = Restrict(FileOrder, keep)
  /\ migrationsDir' = DirOfNames(migrations')
  /\ UNCHANGED <<version, store, clock, call, pc, locals, history, upOk,
                 upOut, late, thrown, ready, initRuns, isInitialized, overlap,
                 svcLocals>>
  /\ UNCHANGED <<openSessions, checksumLog>>

----------------------------------------------------------------------------
\* MigrationService over its manager

\* The methods that begin with "if (!this.isInitialized) await
\* this.initialize()", and initialize() itself.
GuardedMethods ==
  {"initialize", "hasPendingMigrations", "getStatusSummary",
   "runPendingMigrations", "checkMigrationHealth", "createMigration"}

AutoMigrateValues == {"true", "false", "unset"}

NodeEnvValues == {"development", "production", "unset"}

\* runOnStartup()'s two tests, mutated: NODE_ENV is not looked at.
StartupRunsInAnyEnv(e) == e.AUTO_MIGRATE = "true"

\* runOnStartup()'s two tests: it goes on to the pending migrations when
\* AUTO_MIGRATE === "true" and NODE_ENV === "development".
StartupRuns(e) == e.AUTO_MIGRATE = "true" /\ e.NODE_ENV = "development"

\* Where method m goes on once the initialization guard is passed.
\* checkMigrationHealth() calls getStatusSummary(); runOnStartup() calls
\* hasPendingMigrations() or checkMigrationHealth().
AfterInit(m, e) ==
  CASE m = "initialize" -> "returned"
    [] m = "hasPendingMigrations" -> "has_pending"
    [] m = "getStatusSummary" -> "summary"
    [] m = "runPendingMigrations" -> "run_pending"
    [] m = "checkMigrationHealth" -> "summary"
    [] m = "createMigration" -> "create"
    [] m = "runOnStartup" ->
         IF StartupRuns(e) THEN "has_pending" ELSE "summary"

\* The catch blocks of the service, mutated: runOnStartup() throws on.
SvcThrowsFromStartup(m) == m # "checkMigrationHealth"

\* Whether an error below method m leaves it as an exception:
\* checkMigrationHealth() and runOnStartup() log it and return, the others
\* throw it on.
SvcThrows(m) == m \notin {"checkMigrationHealth", "runOnStartup"}

\* runPendingMigrations()'s result, mutated: every attempt is counted.
RunPendingResultCountsAll(rs) ==
  LET successCount == Cardinality({i \in 1..Len(rs) : rs[i].success})
  IN [success |-> successCount = Len(rs), migrationsRun |-> Len(rs)]

\* runPendingMigrations()'s result from migrate()'s results: successCount is
\* results.filter(r => r.success).length.
RunPendingResult(rs) ==
  LET successCount == Cardinality({i \in 1..Len(rs) : rs[i].success})
  IN [success |-> successCount = Len(rs), migrationsRun |-> successCount]

\* getStatusSummary()'s counts, mutated: pending counts the status PENDING.
StatusSummaryByStatus(q) ==
  [total |-> Len(q),
   applied |-> Cardinality({i \in 1..Len(q) :
                              q[i].applied /\ q[i].status = "SUCCESS"}),
   pending |-> Cardinality({i \in 1..Len(q) : q[i].status = "PENDING"}),
   failed |-> Cardinality({i \in 1..Len(q) : q[i].status = "FAILED"})]

\* getStatusSummary()'s counts over the value of getStatus().
StatusSummary(q) ==
  [total |-> Len(q),
   applied |-> Cardinality({i \in 1..Len(q) :
                              q[i].applied /\ q[i].status = "SUCCESS"}),
   pending |-> Cardinality({i \in 1..Len(q) : ~q[i].applied}),
   failed |-> Cardinality({i \in 1..Len(q) : q[i].status = "FAILED"})]

\* "if (!this.isInitialized) await this.initialize()": the flag is read, and
\* when it is false a run of the manager's initialize() is started and
\* awaited.  The flag is set when that run has returned.
EnsureInit ==
  IF isInitialized
  THEN /\ svcPc' = AfterInit(svc', env')
       /\ UNCHANGED initRuns
  ELSE /\ svcPc' = "init"
       /\ initRuns' = Counted(initRuns)

\* An error reaches the method in progress.
SvcFail(e) ==
  /\ svcErr' = e
  /\ svcThrown' = SvcThrows(svc)
  /\ svcPc' = "returned"

SvcCall(m) ==
  /\ pc = "idle"
  /\ svcPc = "idle"
  /\ svc' = m
  /\ healthCalls' = IF m = "checkMigrationHealth" THEN 1 ELSE 0
  /\ EnsureInit
  /\ UNCHANGED <<version, migrations, store, clock, call, pc, locals, history,
                 upOk, upOut, late, thrown, migrationsDir, ready,
                 isInitialized, overlap, svcErr, svcThrown, runRet, summary,
                 env>>
  /\ UNCHANGED <<openSessions, checksumLog>>

InitializeCall ==
  /\ svc = "none"
  /\ SvcCall("initialize")

HasPendingMigrationsCall ==
  /\ svc = "none"
  /\ SvcCall("hasPendingMigrations")

GetStatusSummaryCall ==
  /\ svc = "none"
  /\ SvcCall("getStatusSummary")

RunPendingMigrationsCall ==
  /\ svc = "none"
  /\ SvcCall("runPendingMigrations")

CheckMigrationHealthCall ==
  /\ svc = "none"
  /\ SvcCall("checkMigrationHealth")

CreateMigrationCall ==
  /\ svc = "none"
  /\ SvcCall("createMigration")

\* runOnStartup() reads the two environment variables and calls
\* checkMigrationHealth() or hasPendingMigrations().
RunOnStartupCall ==
  /\ pc = "idle"
  /\ svc = "none"
  /\ svcPc = "idle"
  /\ svc' = "runOnStartup"
  /\ \E a \in AutoMigrateValues, e \in NodeEnvValues :
       env' = [AUTO_MIGRATE |-> a, NODE_ENV |-> e]
  /\ healthCalls' = IF StartupRuns(env') THEN 0 ELSE 1
  /\ EnsureInit
  /\ UNCHANGED <<version, migrations, store, clock, call, pc, locals, history,
                 upOk, upOut, late, thrown, migrationsDir, ready,
                 isInitialized, overlap, svcErr, svcThrown, runRet, summary>>
  /\ UNCHANGED <<openSessions, checksumLog>>

\* The awaited MigrationManager.initialize() settles: ensureMigrationsCollection
\* found or created the collection, loadMigrations() went through the files.
SvcInitSettles ==
  /\ svcPc = "init"
  /\ LET o == loadMigrations(migrations, version, migrationsDir) IN
       /\ migrations' = o.migrations
       /\ version' = o.version
       /\ IF o.ok
          THEN /\ ready' = TRUE
               /\ isInitialized' = TRUE
               /\ svcPc' = AfterInit(svc, env)
               /\ UNCHANGED <<svcErr, svcThrown>>
          ELSE /\ SvcFail("Failed to load migrations")
               /\ UNCHANGED <<ready, isInitialized>>
  /\ UNCHANGED <<store, clock, call, pc, locals, history, upOk, upOut, late,
                 thrown, migrationsDir, initRuns, overlap, svc, runRet,
                 summary, env, healthCalls>>
  /\ UNCHANGED <<openSessions, checksumLog>>

\* The awaited initialize() fails in ensureMigrationsCollection(): the
\* database is not connected or listCollections() throws.
SvcInitDbFails ==
  /\ svcPc = "init"
  /\ SvcFail("Failed to initialize migration system")
  /\ UNCHANGED <<version, migrations, store, clock, call, pc, locals, history,
                 upOk, upOut, late, thrown, migrationsDir, ready, initRuns,
                 isInitialized, overlap, svc, runRet, summary, env,
                 healthCalls>>
  /\ UNCHANGED <<openSessions, checksumLog>>

\* While the first caller awaits the manager's initialize(), a second caller
\* calls service.initialize(): isInitialized is still false.
OverlapCall ==
  /\ svcPc = "init"
  /\ ~overlap
  /\ ~isInitialized
  /\ overlap' = TRUE
  /\ initRuns' = Counted(initRuns)
  /\ UNCHANGED <<version, migrations, store, clock, call, pc, locals, history,
                 upOk, upOut, late, thrown, migrationsDir, ready,
                 isInitialized, svcLocals>>
  /\ UNCHANGED <<openSessions, checksumLog>>

\* The second caller's run of the manager's initialize() settles.
OverlapSettles ==
  /\ overlap
  /\ overlap' = FALSE
  /\ LET o == loadMigrations(migrations, version, migrationsDir) IN
       /\ migrations' = o.migrations
       /\ version' = o.version
       /\ ready' = (ready \/ o.ok)
       /\ isInitialized' = (isInitialized \/ o.ok)
  /\ UNCHANGED <<store, clock, call, pc, locals, history, upOk, upOut, late,
                 thrown, migrationsDir, initRuns, svcLocals>>
  /\ UNCHANGED <<openSessions, checksumLog>>

\* hasPendingMigrations(): the length of getPendingMigrations().  In
\* runOnStartup() runPendingMigrations() follows when there are some.
SvcHasPending ==
  /\ svcPc = "has_pending"
  /\ qret' = getPendingMigrations
  /\ svcPc' = IF svc = "runOnStartup" /\ Len(qret') > 0
              THEN "run_pending" ELSE "returned"
  /\ UNCHANGED <<version, migrations, store, clock, call, pc, pending, cur,
                 txn, err, results, rbResult, resetQueue, history, upOk,
                 upOut, late, thrown, migrationsDir, ready, initRuns,
                 isInitialized, overlap, svc, svcErr, svcThrown, runRet,
                 summary, env, healthCalls>>
  /\ UNCHANGED <<openSessions, checksumLog>>

\* getStatusSummary(): the four counts over one getStatus().
SvcSummary ==
  /\ svcPc = "summary"
  /\ \E applied \in FindSortedByAppliedAt(store,
                                           {n \in Names : HasRecord(store, n)},
                                           1) :
       qret' = getStatus(applied)
  /\ summary' = StatusSummary(qret')
  /\ svcPc' = "returned"
  /\ UNCHANGED <<version, migrations, store, clock, call, pc, pending, cur,
                 txn, err, results, rbResult, resetQueue, history, upOk,
                 upOut, late, thrown, migrationsDir, ready, initRuns,
                 isInitialized, overlap, svc, svcErr, svcThrown, runRet, env,
                 healthCalls>>
  /\ UNCHANGED <<openSessions, checksumLog>>

\* runPendingMigrations(): no pending migration returns at once, else
\* migrate() is called.
SvcRunPending ==
  /\ svcPc = "run_pending"
  /\ IF Len(getPendingMigrations) = 0
     THEN /\ runRet' = [success |-> TRUE, migrationsRun |-> 0]
          /\ svcPc' = "returned"
          /\ UNCHANGED <<version, migrations, store, clock, call, pc, locals,
                         history, upOk, upOut, late, thrown, openSessions,
                         checksumLog>>
     ELSE /\ MigrateEnter
          /\ svcPc' = "migrating"
          /\ UNCHANGED runRet
  /\ UNCHANGED <<migrationsDir, ready, initRuns, isInitialized, overlap, svc,
                 svcErr, svcThrown, summary, env, healthCalls>>

\* migrate() has returned its results to runPendingMigrations().
SvcAfterMigrate ==
  /\ svcPc = "migrating"
  /\ pc = "returned"
  /\ runRet' = RunPendingResult(results)
  /\ svcPc' = "returned"
  /\ UNCHANGED <<version, migrations, store, clock, call, pc, locals, history,
                 upOk, upOut, late, thrown, migrationsDir, ready, initRuns,
                 isInitialized, overlap, svc, svcErr, svcThrown, summary, env,
                 healthCalls>>
  /\ UNCHANGED <<openSessions, checksumLog>>

\* A query of the method's body throws: the find() of getPendingMigrations()
\* or of getStatus(), also inside migrate().
SvcQueryFails ==
  /\ svcPc \in {"has_pending", "summary", "run_pending"}
  /\ SvcFail("query failed")
  /\ UNCHANGED <<version, migrations, store, clock, call, pc, locals, history,
                 upOk, upOut, late, thrown, migrationsDir, ready, initRuns,
                 isInitialized, overlap, svc, runRet, summary, env,
                 healthCalls>>
  /\ UNCHANGED <<openSessions, checksumLog>>

\* The manager's createMigration(): mkdir, then a file whose name begins with
\* the timestamp and whose template is a complete definition.
SvcCreate ==
  /\ svcPc = "create"
  /\ Len(migrationsDir.files) < MaxFiles
  /\ \E n \in Names :
       migrationsDir' = [exists |-> TRUE,
                         files |-> Append(migrationsDir.files, File(n, "ok"))]
  /\ svcPc' = "returned"
  /\ UNCHANGED <<version, migrations, store, clock, call, pc, locals, history,
                 upOk, upOut, late, thrown, ready, initRuns, isInitialized,
                 overlap, svc, svcErr, svcThrown, runRet, summary, env,
                 healthCalls>>
  /\ UNCHANGED <<openSessions, checksumLog>>

\* The caller has taken what the service method returned or threw.
SvcCallerContinues ==
  /\ svcPc = "returned"
  /\ svc' = "none"
  /\ svcPc' = "idle"
  /\ svcErr' = NoError
  /\ svcThrown' = FALSE
  /\ runRet' = NoRun
  /\ summary' = NoSummary
  /\ env' = NoEnv
  /\ healthCalls' = 0
  /\ call' = "none"
  /\ pc' = "idle"
  /\ pending' = <<>>
  /\ cur' = "none"
  /\ txn' = NoTxn
  /\ err' = NoError
  /\ results' = <<>>
  /\ rbResult' = NoResult
  /\ qret' = <<>>
  /\ resetQueue' = <<>>
  /\ upLog' = <<>>
  /\ downLog' = <<>>
  /\ downOut' = "none"
  /\ visitLog' = <<>>
  /\ store0' = store
  /\ upOut' = "none"
  /\ late' = {}
  /\ thrown' = FALSE
  /\ UNCHANGED <<version, migrations, store, clock, upOk, migrationsDir,
                 ready, initRuns, isInitialized, overlap>>
  /\ UNCHANGED <<openSessions, checksumLog>>

----------------------------------------------------------------------------
\* The calls on one manager whose loaded definitions stay as they are.
NextFixed ==
  \/ MigrateCall
  \/ RsmBegin
  \/ UpResolves
  \/ UpRejects
  \/ UpTimesOut
  \/ RsmCommit
  \/ RsmCatch
  \/ RollbackCall
  \/ DownResolves
  \/ DownRejects
  \/ DownTimesOut
  \/ RbCommit
  \/ ResetCall
  \/ ResetStep
  \/ ResetReturn
  \/ GetStatusCall
  \/ GetPendingCall
  \/ CallerContinues
  \/ LateBodySettles

Next ==
  \/ NextFixed
  \/ NewProcess

Spec == Init /\ [][Next]_vars

----------------------------------------------------------------------------
\* The same engine over a store whose commitTransaction can fail.  A failed
\* commit applies nothing and leaves the session outside a transaction.

\* runSingleMigration(): commitTransaction throws into the catch block.
RsmCommitFails ==
  /\ pc = "rsm_commit"
  /\ txn' = NoTxn
  /\ err' = "commit failed"
  /\ pc' = "rsm_catch"
  /\ UNCHANGED <<version, migrations, store, clock, call, pending, cur,
                 results, rbResult, qret, resetQueue, upLog, downLog, downOut,
                 visitLog, store0, upOk>>
  /\ UNCHANGED <<upOut, late, thrown, service>>
  /\ UNCHANGED <<openSessions, checksumLog>>

\* rollback(): commitTransaction throws into the catch blocks.
RbCommitFails ==
  /\ pc = "rb_commit"
  /\ txn' = NoTxn
  /\ store' = AfterDownFailure(store, cur)
  /\ rbResult' = [success |-> FALSE, error |-> "commit failed"]
  /\ pc' = RollbackReturnsTo(call)
  /\ UNCHANGED <<version, migrations, clock, call, pending, cur, err, results,
                 qret, resetQueue, upLog, downLog, downOut, visitLog, store0,
                 upOk>>
  /\ UNCHANGED <<upOut, late, thrown, service>>
  /\ openSessions' = AfterFinally(openSessions, "catch")
  /\ UNCHANGED checksumLog

\* migrate(): the find() of getPendingMigrations() throws; migrate()'s catch
\* throws a DatabaseError.
MigrateFindFails ==
  /\ pc = "idle"
  /\ svc = "none"
  /\ call' = "migrate"
  /\ thrown' = TRUE
  /\ pc' = "returned"
  /\ UNCHANGED <<version, migrations, store, clock, locals, history, upOk,
                 upOut, late, service>>
  /\ UNCHANGED <<openSessions, checksumLog>>

NextFault ==
  \/ Next
  \/ RsmCommitFails
  \/ RbCommitFails
  \/ MigrateFindFails

SpecFault == Init /\ [][NextFault]_vars

\* One process, from the empty collection to its end.
SpecFixed == Init /\ [][NextFixed]_vars

\* A second migrate() invocation on the same collection, in another process,
\* while this one is between two of its attempts: its runSingleMigration(n)
\* of a loaded definition without a record runs up() and commits the record
\* as SUCCESS.
OtherInvocationCommits ==
  /\ call = "migrate"
  /\ pc = "mig_loop"
  /\ \E n \in Range(migrations) :
       /\ ~HasRecord(store, n)
       /\ store' = [store EXCEPT ![n] = Rec("SUCCESS", clock, NoError)]
       /\ upOk' = upOk \cup {n}
  /\ UNCHANGED <<version, migrations, clock, call, pc, locals, history, upOut,
                 late, thrown, service>>
  /\ UNCHANGED <<openSessions, checksumLog>>

NextOverlap ==
  \/ Next
  \/ OtherInvocationCommits

\* Two invocations of migrate() that overlap on one collection.
SpecOverlap == Init /\ [][NextOverlap]_vars

----------------------------------------------------------------------------
\* A ledger left by earlier processes: any records, of any status.

LedgerRecords ==
  {NoRec} \cup {Rec(s, t, IF s = "FAILED" THEN "boom" ELSE NoError) :
                  s \in Statuses, t \in 0..MaxClock}

IdleOver(S) ==
  /\ store = S
  /\ store0 = S
  /\ clock = MaxClock
  /\ upOk = {n \in Names : S[n].status = "SUCCESS"}
  /\ call = "none"
  /\ pc = "idle"
  /\ pending = <<>>
  /\ cur = "none"
  /\ txn = NoTxn
  /\ err = NoError
  /\ results = <<>>
  /\ rbResult = NoResult
  /\ qret = <<>>
  /\ resetQueue = <<>>
  /\ upLog = <<>>
  /\ downLog = <<>>
  /\ downOut = "none"
  /\ visitLog = <<>>
  /\ upOut = "none"
  /\ late = {}
  /\ thrown = FALSE
  /\ openSessions = 0
  /\ checksumLog = <<>>
  /\ InitializedFrom(migrations)

\* The calls over any ledger.  version plays no part in rollback() and
\* reset(): here all the definitions carry the same one.
InitLedger ==
  /\ version = [n \in Names |-> 1]
  /\ \E keep \in SUBSET Names : migrations = Restrict(FileOrder, keep)
  /\ \E S \in [Names -> LedgerRecords] : IdleOver(S)

SpecLedger == InitLedger /\ [][Next]_vars

\* The two queries, and the service's summary, over any definitions and any
\* ledger.
InitQuery ==
  /\ version \in [Names -> 1..MaxVersion]
  /\ \E keep \in SUBSET Names : migrations = Restrict(FileOrder, keep)
  /\ \E S \in [Names -> LedgerRecords] : IdleOver(S)

NextQuery ==
  \/ GetStatusCall
  \/ GetPendingCall
  \/ CallerContinues
  \/ GetStatusSummaryCall
  \/ SvcSummary
  \/ SvcCallerContinues

SpecQuery == InitQuery /\ [][NextQuery]_vars

----------------------------------------------------------------------------
\* A new process whose MigrationService has not been initialized, over an
\* empty collection and any directory of up to MaxFiles files.

RECURSIVE SeqsUpTo(_, _)
SeqsUpTo(S, n) ==
  IF n = 0 THEN {<<>>}
  ELSE LET shorter == SeqsUpTo(S, n - 1)
       IN shorter \cup {Append(q, x) : q \in shorter, x \in S}

Directories ==
  {NoDirectory} \cup
    {[exists |-> TRUE, files |-> f] : f \in SeqsUpTo(Files, MaxFiles)}

InitService ==
  /\ version = [n \in Names |-> 1]
  /\ migrations = <<>>
  /\ migrationsDir \in Directories
  /\ store = [n \in Names |-> NoRec]
  /\ store0 = store
  /\ clock = 0
  /\ upOk = {}
  /\ Quiet
  /\ ready = FALSE
  /\ initRuns = 0
  /\ isInitialized = FALSE
  /\ QuietService

NextService ==
  \/ InitializeCall
  \/ HasPendingMigrationsCall
  \/ GetStatusSummaryCall
  \/ RunPendingMigrationsCall
  \/ CheckMigrationHealthCall
  \/ CreateMigrationCall
  \/ RunOnStartupCall
  \/ SvcInitSettles
  \/ SvcInitDbFails
  \/ OverlapCall
  \/ OverlapSettles
  \/ SvcHasPending
  \/ SvcSummary
  \/ SvcRunPending
  \/ SvcAfterMigrate
  \/ SvcQueryFails
  \/ SvcCreate
  \/ SvcCallerContinues
  \/ RsmBegin
  \/ UpResolves
  \/ UpRejects
  \/ UpTimesOut
  \/ RsmCommit
  \/ RsmCatch
  \/ LateBodySettles

SpecService == InitService /\ [][NextService]_vars

----------------------------------------------------------------------------
\* The manager used without the service: initialize() and createMigration()
\* called on it, any number of times.

\* MigrationManager.initialize(): ensureMigrationsCollection(), then
\* loadMigrations() into the Map as it is.  Nothing tells a first call from a
\* later one.
ManagerInitializeCall ==
  /\ pc = "idle"
  /\ svc = "none"
  /\ call' = "initialize"
  /\ initRuns' = Counted(initRuns)
  /\ LET o == loadMigrations(migrations, version, migrationsDir) IN
       /\ migrations' = o.migrations
       /\ version' = o.version
       /\ ready' = (ready \/ o.ok)
       /\ thrown' = ~o.ok
  /\ pc' = "returned"
  /\ UNCHANGED <<store, clock, locals, history, upOk, upOut, late,
                 migrationsDir, isInitialized, overlap, svcLocals>>
  /\ UNCHANGED <<openSessions, checksumLog>>

\* MigrationManager.createMigration(): mkdir, then a file whose name begins
\* with the timestamp and whose template is a complete definition.
ManagerCreateMigrationCall ==
  /\ pc = "idle"
  /\ svc = "none"
  /\ Len(migrationsDir.files) < MaxFiles
  /\ call' = "createMigration"
  /\ \E n \in Names :
       migrationsDir' = [exists |-> TRUE,
                         files |-> Append(migrationsDir.files, File(n, "ok"))]
  /\ pc' = "returned"
  /\ UNCHANGED <<version, migrations, store, clock, locals, history, upOk,
                 upOut, late, thrown, ready, initRuns, isInitialized, overlap,
                 svcLocals>>
  /\ UNCHANGED <<openSessions, checksumLog>>

NextLoad ==
  \/ ManagerInitializeCall
  \/ ManagerCreateMigrationCall
  \/ CallerContinues

SpecLoad == InitService /\ [][NextLoad]_vars

----------------------------------------------------------------------------
\* The checksum put on a record, over any definitions

\* The text of up() and down() in a definition's file.
SourceBodies == {"bodyA", "bodyB"}

\* The source content of a definition: what its file says.
Definitions == [name : Names, version : 1..MaxVersion, body : SourceBodies]

\* crypto.createHash("sha256").update(content, "utf8").digest("hex"): the
\* digest is taken to be free of collisions, one digest per content string.
generateChecksum(content) == [sha256 |-> content]

\* The checksum field of new Migration({...}): the digest of the string
\* migration.name + migration.version.
RecordChecksum(d) == generateChecksum(d.name \o ToString(d.version))

InitChecksum ==
  /\ version = [n \in Names |-> 1]
  /\ migrations = FileOrder
  /\ store = [n \in Names |-> NoRec]
  /\ store0 = store
  /\ clock = 0
  /\ upOk = {}
  /\ Quiet
  /\ InitializedFrom(migrations)

\* runSingleMigration() creates the record of a definition.
RecordCreated ==
  /\ Len(checksumLog) < MaxChecksumLog
  /\ \E d \in Definitions :
       checksumLog' = Append(checksumLog,
                             [definition |-> d, checksum |-> RecordChecksum(d)])
  /\ UNCHANGED <<version, migrations, store, clock, call, pc, locals, history,
                 upOk, upOut, late, thrown, service, openSessions>>

NextChecksum ==
  \/ RecordCreated

SpecChecksum == InitChecksum /\ [][NextChecksum]_vars

----------------------------------------------------------------------------
\* The claims

\* The names migrate() found pending when the call began.
Pending0 == {n \in Range(migrations) : store0[n].status # "SUCCESS"}

AllSucceeded(rs) == \A i \in 1..Len(rs) : rs[i].success

\* C1: within one migrate() call up() is invoked on the pending definitions
\* one at a time in ascending version order, nothing is skipped, and the call
\* stops after the first failed attempt: the results hold one entry per up()
\* attempted, only the last entry can be a failure, and no up() is invoked
\* after a failure.  A migrate() that returns normally with no failure has
\* attempted all of them.
C1_MigrateInOrderFailFast ==
  call = "migrate" =>
    /\ Len(upLog) \in {Len(results), Len(results) + 1}
    /\ pc \in {"returned", "mig_loop"} => Len(upLog) = Len(results)
    /\ AllSucceeded(Front(results))
    /\ NoDup(upLog)
    /\ Range(upLog) \subseteq Pending0
    /\ \A i, j \in 1..Len(upLog) :
         i < j => version[upLog[i]] <= version[upLog[j]]
    /\ \A n \in Pending0 \ Range(upLog) :
         \A i \in 1..Len(upLog) : version[upLog[i]] <= version[n]
    /\ ~AllSucceeded(results) => pc = "returned"
    /\ (pc = "returned" /\ ~thrown /\ AllSucceeded(results)) =>
         Range(upLog) = Pending0

\* C1, its case: of three pending migrations the first succeeded, the second
\* failed and the third was not attempted.
C1_Witness ==
  /\ call = "migrate"
  /\ pc = "returned"
  /\ Cardinality(Pending0) = 3
  /\ Len(results) = 2
  /\ results[1].success
  /\ ~results[2].success
  /\ Len(upLog) = 2
  /\ version[upLog[1]] < version[upLog[2]]

\* C2: once migrate() has returned with a failed attempt, the store holds a
\* record of the failed migration with status FAILED and the error message.
C2_FailedAttemptRecorded ==
  (call = "migrate" /\ pc = "returned" /\ ~AllSucceeded(results)) =>
    /\ store[cur].status = "FAILED"
    /\ store[cur].errorMessage = Last(results).error

\* C3: a committed SUCCESS record exists only for a name whose last up()
\* resolved before its timer and whose record was not deleted since; an
\* attempt that ended in a failure result (up() threw, the timer fired, or the
\* commit failed) leaves no SUCCESS record of its migration.
C3_NoFalseSuccess ==
  /\ \A n \in Names : store[n].status = "SUCCESS" => n \in upOk
  /\ (call = "migrate" /\ pc = "returned" /\ ~AllSucceeded(results)) =>
       store[cur].status # "SUCCESS"

\* C3, its case: one attempt of the call was committed as SUCCESS, and a later
\* one whose up() resolved failed at the commit and left no record.
C3_Witness ==
  /\ call = "migrate"
  /\ pc = "returned"
  /\ Len(results) = 2
  /\ results[2].error = "commit failed"
  /\ store[upLog[1]].status = "SUCCESS"
  /\ upLog[2] \in upOk
  /\ ~HasRecord(store, upLog[2])

\* C4: every execution attempt ends with its record in SUCCESS or FAILED, and
\* a record in a terminal status changes to the other terminal status only by
\* a new execution attempt of that migration.
C4_RecordLifecycle ==
  [][/\ Len(results') = Len(results) + 1 =>
          store'[cur].status \in {"SUCCESS", "FAILED"}
     /\ \A n \in Names :
          (/\ store[n].status \in {"SUCCESS", "FAILED"}
           /\ store'[n].status \in {"SUCCESS", "FAILED"}
           /\ store'[n].status # store[n].status)
          => (call = "migrate" /\ cur = n /\ n \in Range(upLog))]_vars

\* C5: rollback(name) without a loaded definition of that name, or without a
\* record of it in SUCCESS, returns a failure result, never invokes down() and
\* leaves every record as it was.
C5_RollbackRefused ==
  (call = "rollback" /\ ~(Loaded(cur) /\ store0[cur].status = "SUCCESS")) =>
    /\ pc = "returned"
    /\ ~rbResult.success
    /\ rbResult.error \notin {NoError, "unset"}
    /\ downLog = <<>>
    /\ store = store0

\* C5, its case: the definition is loaded and its record is FAILED.
C5_Witness ==
  /\ call = "rollback"
  /\ pc = "returned"
  /\ Loaded(cur)
  /\ store0[cur].status = "FAILED"
  /\ ~rbResult.success

\* C6: when the definition is loaded, its record is SUCCESS and down()
\* resolves before the timer, rollback(name) invokes down() once, returns
\* success, deletes that record and no other, and the migration is pending
\* again.
C6_RollbackDeletes ==
  (call = "rollback" /\ Loaded(cur) /\ store0[cur].status = "SUCCESS") =>
    /\ downLog = <<cur>>
    /\ (pc = "returned" /\ downOut = "resolved") =>
         /\ rbResult.success
         /\ ~HasRecord(store, cur)
         /\ \A n \in Names \ {cur} : store[n] = store0[n]
         /\ \E i \in 1..Len(getPendingMigrations) :
              getPendingMigrations[i].name = cur

\* C6, its case: a rollback of an applied migration has returned success.
C6_Witness ==
  /\ call = "rollback"
  /\ pc = "returned"
  /\ store0[cur].status = "SUCCESS"
  /\ downOut = "resolved"
  /\ rbResult.success

\* C7: when down() throws or the timer fires first, rollback(name) returns a
\* failure result with the error message, and every record, that of the
\* migration included, is as it was.
C7_RollbackFailureKeepsRecord ==
  (call = "rollback" /\ pc = "returned"
     /\ downOut \in {"rejected", "timeout"}) =>
    /\ ~rbResult.success
    /\ rbResult.error =
         (IF downOut = "timeout" THEN "Rollback timeout" ELSE "boom")
    /\ store = store0
    /\ store[cur].status = "SUCCESS"
    /\ downLog = <<cur>>

\* C7, its case: the rollback's timer fired before down() settled.
C7_Witness ==
  /\ call = "rollback"
  /\ pc = "returned"
  /\ downOut = "timeout"
  /\ store0[cur].status = "SUCCESS"

\* The names reset() has visited, in order.
Visited == [i \in 1..Len(visitLog) |-> visitLog[i].name]

\* C8: reset() visits the records that were SUCCESS when it began, each once,
\* in descending appliedAt order, skipping none; a visited record with a loaded
\* definition gets rollback(name), one without gets its record deleted and no
\* down(); records that were not SUCCESS stay as they were.
C8_ResetVisits ==
  call = "reset" =>
    LET applied0 == {n \in Names : store0[n].status = "SUCCESS"} IN
    /\ NoDup(Visited)
    /\ Range(Visited) \subseteq applied0
    /\ \A i, j \in 1..Len(Visited) :
         i < j => store0[Visited[i]].appliedAt >= store0[Visited[j]].appliedAt
    /\ \A n \in applied0 \ Range(Visited) :
         \A i \in 1..Len(Visited) :
           store0[Visited[i]].appliedAt >= store0[n].appliedAt
    /\ pc = "returned" => Range(Visited) = applied0
    /\ \A i \in 1..Len(visitLog) :
         visitLog[i].how =
           (IF Loaded(visitLog[i].name) THEN "rollback" ELSE "delete")
    /\ \A i \in 1..Len(visitLog) :
         visitLog[i].how = "delete" => ~HasRecord(store, visitLog[i].name)
    /\ downLog = SelectSeq(Visited, Loaded)
    /\ \A n \in Names \ applied0 : store[n] = store0[n]

\* C8, its case: reset() has returned after a rollback, then the delete of a
\* record without a definition applied earlier, with a FAILED record around.
C8_Witness ==
  /\ call = "reset"
  /\ pc = "returned"
  /\ Len(visitLog) = 2
  /\ visitLog[1].how = "rollback"
  /\ visitLog[2].how = "delete"
  /\ store0[Visited[1]].appliedAt > store0[Visited[2]].appliedAt
  /\ \E n \in Names : store0[n].status = "FAILED" /\ store[n] = store0[n]

Sorted(q) == \A i, j \in 1..Len(q) : i < j => q[i].version <= q[j].version

EntryNames(q) == {q[i].name : i \in 1..Len(q)}

\* C9: getPendingMigrations() returns the loaded definitions that have no
\* SUCCESS record, those with a FAILED or PENDING record included, each once,
\* ascending by version.
C9_PendingExact ==
  (call = "getPendingMigrations" /\ pc = "returned") =>
    /\ EntryNames(qret) =
         {n \in Range(migrations) : store[n].status # "SUCCESS"}
    /\ Len(qret) = Cardinality(EntryNames(qret))
    /\ \A i \in 1..Len(qret) : qret[i].version = version[qret[i].name]
    /\ Sorted(qret)

\* C9, its case: a definition with a FAILED record and one with a PENDING
\* record are returned, one with a SUCCESS record is not, and the file order
\* is not the version order.
C9_Witness ==
  /\ call = "getPendingMigrations"
  /\ pc = "returned"
  /\ Len(qret) = 2
  /\ {store[qret[1].name].status, store[qret[2].name].status} =
       {"FAILED", "PENDING"}
  /\ \E n \in Range(migrations) : store[n].status = "SUCCESS"
  /\ qret[1].name = "m3"
  /\ qret[1].version < qret[2].version

\* C10: getStatus() returns one entry per name that is loaded or has a
\* record, ascending by version: a definition without a record is not applied
\* and PENDING, a definition with a record carries the record's status and
\* appliedAt, a record without a definition is applied and carries the
\* record's status.
C10_StatusExact ==
  (call = "getStatus" /\ pc = "returned") =>
    /\ EntryNames(qret) =
         Range(migrations) \cup {n \in Names : HasRecord(store, n)}
    /\ Len(qret) = Cardinality(EntryNames(qret))
    /\ Sorted(qret)
    /\ \A i \in 1..Len(qret) :
         LET e == qret[i] IN
         /\ e.version = version[e.name]
         /\ ~HasRecord(store, e.name) =>
              (~e.applied /\ e.status = "PENDING" /\ e.appliedAt = Undefined)
         /\ HasRecord(store, e.name) =>
              /\ e.status = store[e.name].status
              /\ e.appliedAt = store[e.name].appliedAt
              /\ e.errorMessage = store[e.name].errorMessage
         /\ (HasRecord(store, e.name) /\ ~Loaded(e.name)) => e.applied

\* C10, its case: a definition never run, a definition with a FAILED record
\* and a SUCCESS record without a definition, the last with the lowest version.
C10_Witness ==
  /\ call = "getStatus"
  /\ pc = "returned"
  /\ Len(qret) = 3
  /\ ~Loaded(qret[1].name) /\ qret[1].applied /\ qret[1].status = "SUCCESS"
  /\ qret[1].version < qret[2].version
  /\ \E i \in 2..3 : Loaded(qret[i].name) /\ ~HasRecord(store, qret[i].name)
  /\ \E i \in 2..3 : Loaded(qret[i].name) /\ qret[i].status = "FAILED"

\* C11: when the timer fires before up() has settled, the attempt goes to
\* the catch block with the error "Migration timeout" and is reported as
\* { success: false, error: "Migration timeout" } by a step that does not
\* wait for the body, and migrate() returns there: that entry is its last and
\* no further up() is invoked.
C11_TimeoutReported ==
  (call = "migrate" /\ upOut = "timeout") =>
    /\ pc \in {"rsm_catch", "returned"}
    /\ cur = Last(upLog)
    /\ pc = "rsm_catch" =>
         /\ err = "Migration timeout"
         /\ Len(results) = Len(upLog) - 1
         /\ ENABLED RsmCatch
    /\ pc = "returned" =>
         /\ ~thrown
         /\ Len(results) = Len(upLog)
         /\ Last(results) = [success |-> FALSE, error |-> "Migration timeout"]

\* C11, its case: migrate() has returned after a timeout of its second
\* attempt, whose body is still running, with a migration left pending.
C11_Witness ==
  /\ call = "migrate"
  /\ pc = "returned"
  /\ upOut = "timeout"
  /\ Body(cur, "up") \in late
  /\ Len(results) = 2
  /\ results[1].success
  /\ results[2].error = "Migration timeout"
  /\ pending # <<>>

\* C12: a body that throws or times out does not make migrate() throw: the
\* call returns a list whose last entry has success = false and the body's
\* error message (the timer's for a timeout).  A migrate() that throws has
\* attempted nothing: the error came from the store.
C12_BodyFailureIsAResult ==
  call = "migrate" =>
    /\ upOut \in {"rejected", "timeout"} =>
         /\ ~thrown
         /\ pc = "returned" =>
              /\ results # <<>>
              /\ ~Last(results).success
              /\ Last(results).error =
                   (IF upOut = "rejected" THEN "boom" ELSE "Migration timeout")
    /\ thrown => (upLog = <<>> /\ results = <<>>)

\* C12, its case: migrate() has returned normally after the body of its first
\* attempt threw.
C12_Witness ==
  /\ call = "migrate"
  /\ pc = "returned"
  /\ upOut = "rejected"
  /\ ~thrown
  /\ results = <<[success |-> FALSE, error |-> "boom"]>>
  /\ pending # <<>>

\* C13: for one MigrationService, whatever methods are called and however
\* the calls overlap, a run of the manager's initialize() is started at most
\* once.
C13_InitializeOnce == initRuns <= 1

\* C14: once an initialize() of the manager has returned, no later step runs
\* the collection check and the load again or changes the loaded definitions.
C14_SecondInitializeIsNoOp ==
  [][ready => (initRuns' = initRuns /\ migrations' = migrations)]_vars

\* The names the files of the directory export.
ExportedNames ==
  {migrationsDir.files[i].name : i \in 1..Len(migrationsDir.files)}

\* C19: an initialize() that returns normally has read a directory in which
\* no two files export the same name.
C19_DuplicateNameRejected ==
  (call = "initialize" /\ pc = "returned" /\ ~thrown) =>
    \A i, j \in 1..Len(migrationsDir.files) :
      migrationsDir.files[i].name = migrationsDir.files[j].name => i = j

\* C20: initialize() throws exactly when some file of the directory exports
\* a definition that lacks a name, a version, a description, up or down; when
\* it returns normally every file's definition is in the Map, none was
\* skipped; a missing directory is no error and loads nothing.
C20_LoadAllOrThrow ==
  (call = "initialize" /\ pc = "returned") =>
    /\ thrown <=> \E i \in 1..Len(migrationsDir.files) :
                    migrationsDir.files[i].shape # "ok"
    /\ ~thrown => Range(migrations) = ExportedNames
    /\ ~migrationsDir.exists => (~thrown /\ migrations = <<>>)
    /\ Range(migrations) \subseteq ExportedNames

\* C20, its case: initialize() threw on a second file without down, after
\* it had loaded the first.
C20_Witness ==
  /\ call = "initialize"
  /\ pc = "returned"
  /\ thrown
  /\ Len(migrationsDir.files) = 2
  /\ migrationsDir.files[1].shape = "ok"
  /\ migrationsDir.files[2].shape = "noDown"
  /\ migrations = <<migrationsDir.files[1].name>>

\* C15: unless AUTO_MIGRATE is "true" and NODE_ENV is "development",
\* runOnStartup() calls checkMigrationHealth() once, calls no migrate(),
\* invokes no up() and changes no record; an up() invoked by runOnStartup()
\* means both variables had those values.
C15_StartupGate ==
  svc = "runOnStartup" =>
    IF env.AUTO_MIGRATE = "true" /\ env.NODE_ENV = "development"
    THEN healthCalls = 0
    ELSE /\ healthCalls = 1
         /\ call = "none"
         /\ upLog = <<>>
         /\ results = <<>>
         /\ runRet = NoRun
         /\ store = store0
         /\ svcPc \in {"init", "summary", "returned"}

\* C15, its case: with AUTO_MIGRATE "true" in production runOnStartup() has
\* returned from the health check, which counted a pending migration, and
\* ran nothing.
C15_Witness ==
  /\ svc = "runOnStartup"
  /\ svcPc = "returned"
  /\ env = [AUTO_MIGRATE |-> "true", NODE_ENV |-> "production"]
  /\ healthCalls = 1
  /\ summary # NoSummary
  /\ summary.pending > 0
  /\ upLog = <<>>

\* C16: runOnStartup() never ends by throwing, whatever failed below it.
C16_StartupNeverThrows ==
  svc = "runOnStartup" => ~svcThrown

\* C16, its case: runOnStartup() has returned although the initialization or
\* a query failed on the path that runs the migrations.
C16_Witness ==
  /\ svc = "runOnStartup"
  /\ svcPc = "returned"
  /\ StartupRuns(env)
  /\ svcErr # NoError
  /\ ~svcThrown

\* C17: the value runPendingMigrations() returns has success = true exactly
\* when every attempt of the batch succeeded, and migrationsRun equal to the
\* number of successful attempts, which is the number of SUCCESS records the
\* call committed; without a pending migration it is { true, 0 } and nothing
\* was attempted.
C17_RunPendingResult ==
  (svcPc = "returned" /\ runRet # NoRun) =>
    /\ svc \in {"runPendingMigrations", "runOnStartup"}
    /\ ~svcThrown
    /\ runRet.success <=> AllSucceeded(results)
    /\ runRet.migrationsRun =
         Cardinality({i \in 1..Len(results) : results[i].success})
    /\ runRet.migrationsRun =
         Cardinality({n \in Names : /\ store[n].status = "SUCCESS"
                                    /\ store0[n].status # "SUCCESS"})
    /\ Len(results) = Len(upLog)
    /\ results = <<>> => runRet = [success |-> TRUE, migrationsRun |-> 0]

\* C17, its case: of two pending migrations the first succeeded and the
\* second failed.
C17_Witness ==
  /\ svc = "runPendingMigrations"
  /\ svcPc = "returned"
  /\ Len(results) = 2
  /\ runRet = [success |-> FALSE, migrationsRun |-> 1]

\* C18: getStatusSummary() returns the counts of one getStatus() value:
\* total its entries, applied those with applied = true and status SUCCESS,
\* failed those with status FAILED, pending those with applied = false.  Over
\* the store: the names with a definition or a record, the SUCCESS records,
\* the FAILED records, the definitions without a record.
C18_SummaryCounts ==
  (svc = "getStatusSummary" /\ svcPc = "returned") =>
    LET entries == {qret[i] : i \in 1..Len(qret)} IN
    /\ Cardinality(entries) = Len(qret)
    /\ summary.total = Cardinality(entries)
    /\ summary.applied =
         Cardinality({e \in entries : e.applied /\ e.status = "SUCCESS"})
    /\ summary.failed = Cardinality({e \in entries : e.status = "FAILED"})
    /\ summary.pending = Cardinality({e \in entries : ~e.applied})
    /\ summary.total =
         Cardinality(Range(migrations) \cup
                       {n \in Names : HasRecord(store, n)})
    /\ summary.applied =
         Cardinality({n \in Names : store[n].status = "SUCCESS"})
    /\ summary.failed =
         Cardinality({n \in Names : store[n].status = "FAILED"})
    /\ summary.pending =
         Cardinality({n \in Range(migrations) : ~HasRecord(store, n)})

\* C18, its case: a summary over one SUCCESS record, one FAILED record, one
\* PENDING record and nothing else, which counts no pending entry.
C18_Witness ==
  /\ svc = "getStatusSummary"
  /\ svcPc = "returned"
  /\ \E n \in Names : store[n].status = "PENDING"
  /\ summary = [total |-> 3, applied |-> 1, pending |-> 0, failed |-> 1]

Executing ==
  late \cup (IF pc = "rsm_race" THEN {Body(cur, "up")}
             ELSE IF pc = "rb_race" THEN {Body(cur, "down")}
             ELSE {})

\* C22: at most one up() or down() body is executing in any state.
C22_OneBodyAtATime == Cardinality(Executing) <= 1

\* C23: a migrate() that found nothing pending has returned the empty list:
\* it invoked no up(), opened no session and no transaction, and the store is
\* as it was.
C23_EmptyPendingIsNoOp ==
  (call = "migrate" /\ Pending0 = {} /\ ~thrown) =>
    /\ pc = "returned"
    /\ results = <<>>
    /\ upLog = <<>>
    /\ txn = NoTxn
    /\ openSessions = 0
    /\ store = store0

\* C23, its case: migrate() has returned with all three definitions loaded
\* and each of them recorded SUCCESS by an earlier migrate().
C23_Witness ==
  /\ call = "migrate"
  /\ pc = "returned"
  /\ results = <<>>
  /\ Range(migrations) = Names
  /\ \A n \in Names : store[n].status = "SUCCESS"

\* C24: two records carry the same checksum exactly when the definitions
\* they were created for have the same source content.
C24_ChecksumOfContent ==
  \A i, j \in 1..Len(checksumLog) :
    (checksumLog[i].checksum = checksumLog[j].checksum)
      <=> (checksumLog[i].definition = checksumLog[j].definition)

\* C25: between the calls on a manager whose loaded definitions are fixed,
\* the definitions with a SUCCESS record are a prefix of the version order:
\* none is recorded SUCCESS while a loaded definition of a smaller version
\* is not.
C25_SuccessIsAPrefix ==
  pc \in {"idle", "returned"} =>
    \A n, m \in Range(migrations) :
      (store[n].status = "SUCCESS" /\ version[m] < version[n]) =>
        store[m].status = "SUCCESS"

\* C26: when reset() has returned without throwing, no record of the store
\* has status SUCCESS, whatever the down() bodies did.
C26_ResetLeavesNoSuccess ==
  (call = "reset" /\ pc = "returned" /\ ~thrown) =>
    \A n \in Names : store[n].status # "SUCCESS"

\* C27: with two overlapping migrate() invocations on one collection, no step
\* changes a record of status SUCCESS into one of status FAILED: the
\* invocation whose insert is rejected leaves the existing record as it is.
C27_SuccessNeverTurnsFailed ==
  [][\A n \in Names :
       store[n].status = "SUCCESS" => store'[n].status # "FAILED"]_vars

\* C28: a new attempt of a migration never has its insert rejected, before
\* up() is called, by a FAILED record that a failed attempt left under the
\* same name.
C28_FailedCanBeRerun ==
  (call = "migrate" /\ pc = "rsm_catch" /\ store[cur].status = "FAILED") =>
    err # "E11000 duplicate key"

\* C29: when a body that lost its race against the timer settles, after its
\* attempt was reported failed with a timeout, no record of the store and no
\* result already returned changes.
C29_LateSettlementChangesNothing ==
  [][(late' # late /\ late' \subseteq late /\ call' = call) =>
       /\ store' = store
       /\ results' = results
       /\ rbResult' = rbResult]_vars

\* A migrate() has returned the failed result of a timed-out attempt and the
\* up() body of that attempt has settled since.
C29_Witness ==
  /\ call = "migrate"
  /\ pc = "returned"
  /\ upOut = "timeout"
  /\ results # <<>>
  /\ results[Len(results)] = [success |-> FALSE, error |-> "Migration timeout"]
  /\ Body(cur, "up") \notin late

\* C30: no record of the committed store has status PENDING, and an entry of
\* status PENDING in what getStatus() returns is of a name without a record.
C30_NoPendingRecord ==
  /\ \A n \in Names : store[n].status # "PENDING"
  /\ (call = "getStatus" /\ pc = "returned") =>
       \A i \in 1..Len(qret) :
         qret[i].status = "PENDING" =>
           /\ ~HasRecord(store, qret[i].name)
           /\ ~qret[i].applied

\* getStatus() has returned an entry of status PENDING next to the entry of
\* a migration that was applied.
C30_Witness ==
  /\ call = "getStatus"
  /\ pc = "returned"
  /\ \E i, j \in 1..Len(qret) :
       /\ qret[i].status = "PENDING"
       /\ qret[j].status = "SUCCESS"

====
